---- MODULE Spec2Model ----
(***************************************************************************)
(* A model of the GraphView widget of egui_graphs (src/src/graph_view.rs): *)
(* the per-frame pipeline Widget::ui runs over a caller-supplied graph,    *)
(* the persisted viewport Metadata and the Change events it sends.         *)
(*                                                                         *)
(* Numbers.  The code computes in f32.  A number is modelled as a pair     *)
(* <<n, d>>: the exact rational n/d in lowest terms when d > 0, and the    *)
(* IEEE special values when d = 0 (<<1,0>> = +inf, <<-1,0>> = -inf,        *)
(* <<0,0>> = NaN).  Rounding of finite results is not modelled; overflow   *)
(* beyond MAX, division by zero and inf/NaN propagation are.  The two      *)
(* signed zeros are one value, taken as +0.                                *)
(***************************************************************************)
EXTENDS Integers, Sequences, FiniteSets, TLC

(* ------------------------------ bounds -------------------------------- *)

\* Number of frames (calls of Widget::ui) a behaviour runs.
MaxFrames == 2

(* ----------------------------- numbers -------------------------------- *)

\* std::f32::MAX, scaled down to a magnitude the model's integers can hold:
\* a finite result whose magnitude exceeds it overflows to an infinity.
MAX == 1048576

AbsI(i) == IF i < 0 THEN 0 - i ELSE i

SignI(i) == IF i > 0 THEN 1 ELSE IF i < 0 THEN 0 - 1 ELSE 0

RECURSIVE GCD(_, _)
GCD(a, b) == IF b = 0 THEN a ELSE GCD(b, a % b)

\* A finite n/d (d > 0, in lowest terms), or the infinity it overflows to.
Overflow(n, d) ==
    LET q == AbsI(n) \div d
    IN  IF q > MAX \/ (q = MAX /\ AbsI(n) % d > 0) THEN <<SignI(n), 0>> ELSE <<n, d>>

\* The number n/d in canonical form (d may be negative or zero on entry).
Norm(n, d) ==
    IF d = 0 THEN <<SignI(n), 0>>
    ELSE LET s == SignI(d)
             g == GCD(AbsI(n), AbsI(d))
         IN  Overflow((s * n) \div g, (s * d) \div g)

Rat(n, d) == Norm(n, d)

Int2F(i) == <<i, 1>>

NaN == <<0, 0>>

PosInf == <<1, 0>>

NegInf == <<0 - 1, 0>>

MIN == <<0 - MAX, 1>>

IsNaN(a) == a = NaN

IsFinite(a) == a[2] > 0

FNeg(a) == <<0 - a[1], a[2]>>

FAdd(a, b) ==
    IF IsNaN(a) \/ IsNaN(b) THEN NaN
    ELSE IF ~IsFinite(a) /\ ~IsFinite(b) THEN (IF a = b THEN a ELSE NaN)
    ELSE IF ~IsFinite(a) THEN a
    ELSE IF ~IsFinite(b) THEN b
    ELSE LET g == GCD(a[2], b[2])
         IN  Norm(a[1] * (b[2] \div g) + b[1] * (a[2] \div g), (a[2] \div g) * b[2])

FSub(a, b) == FAdd(a, FNeg(b))

FMul(a, b) ==
    IF IsNaN(a) \/ IsNaN(b) THEN NaN
    ELSE IF ~IsFinite(a) \/ ~IsFinite(b) THEN <<SignI(a[1]) * SignI(b[1]), 0>>
    ELSE LET g1 == GCD(AbsI(a[1]), b[2])
             g2 == GCD(AbsI(b[1]), a[2])
         IN  Norm((a[1] \div g1) * (b[1] \div g2), (a[2] \div g2) * (b[2] \div g1))

FRecip(a) == Norm(a[2], a[1])

FDiv(a, b) ==
    IF ~IsFinite(a) /\ ~IsFinite(b) THEN NaN ELSE FMul(a, FRecip(b))

\* IEEE comparisons: every comparison with NaN is false.
FLt(a, b) ==
    /\ ~IsNaN(a)
    /\ ~IsNaN(b)
    /\ IF a[2] = 0 /\ b[2] = 0 THEN a[1] < b[1]
       ELSE a[1] * b[2] < b[1] * a[2]

FLe(a, b) ==
    /\ ~IsNaN(a)
    /\ ~IsNaN(b)
    /\ IF a[2] = 0 /\ b[2] = 0 THEN a[1] <= b[1]
       ELSE a[1] * b[2] <= b[1] * a[2]

FEq(a, b) == ~IsNaN(a) /\ ~IsNaN(b) /\ a = b

\* f32::min: the smaller operand, and the other operand when one is NaN.
FMin(a, b) ==
    IF IsNaN(a) THEN b
    ELSE IF IsNaN(b) THEN a
    ELSE IF FLt(b, a) THEN b ELSE a

\* f32::signum: 1 for positive numbers and +0, -1 for negative, NaN for NaN.
FSignum(a) ==
    IF IsNaN(a) THEN NaN
    ELSE IF a[1] < 0 THEN Int2F(0 - 1) ELSE Int2F(1)

(* ----------------------- Vec2 / Pos2 / Rect --------------------------- *)

V(x, y) == <<Int2F(x), Int2F(y)>>

VAdd(a, b) == <<FAdd(a[1], b[1]), FAdd(a[2], b[2])>>

VSub(a, b) == <<FSub(a[1], b[1]), FSub(a[2], b[2])>>

VMul(a, k) == <<FMul(a[1], k), FMul(a[2], k)>>

VDiv(a, k) == <<FDiv(a[1], k), FDiv(a[2], k)>>

\* Vec2::length() <= r, compared on squares (length is never negative).
LengthLe(v, r) ==
    /\ FLe(Int2F(0), r)
    /\ FLe(FAdd(FMul(v[1], v[1]), FMul(v[2], v[2])), FMul(r, r))

RectSize(rect) == VSub(rect.max, rect.min)

RectCenter(rect) == VDiv(VAdd(rect.min, rect.max), Int2F(2))

(* ------------------------------ state --------------------------------- *)

VARIABLES
    nodes,      \* g: NodeIndex -> Node (location, radius, selected, dragged, ...)
    edges,      \* g: EdgeIndex -> Edge (source, target, selected, ...)
    cfg,        \* settings_interaction, setings_navigation, settings_style
    sender,     \* changes_sender: "none", "connected" or "disconnected"
    sink,       \* the Changes the channel's receiver got in the current frame, in order
    meta,       \* the Metadata persisted in the ui's memory
    m,          \* the frame's working copy of the Metadata (let mut meta)
    state,      \* the frame's FrameState (dragged, selections)
    resp,       \* the frame's Response and input (clicks, drags, pointer, zoom)
    pc,         \* the position of Widget::ui inside the frame
    frame,      \* number of frames completed
    replica     \* the receiver's copy of the graph, to which it applies the Changes it gets

vars == <<nodes, edges, cfg, sender, sink, meta, m, state, resp, pc, frame, replica>>

NodeIds == DOMAIN nodes

EdgeIds == DOMAIN edges

\* Option<T> is modelled as a set with at most one element.
None == {}

Some(x) == {x}

Unwrap(o) == CHOOSE x \in o : TRUE

\* The elements of a finite set of integers in ascending order.
RECURSIVE SetToSeq(_)
SetToSeq(S) ==
    IF S = {} THEN <<>>
    ELSE LET x == CHOOSE y \in S : \A z \in S : y <= z
         IN  <<x>> \o SetToSeq(S \ {x})

SeqToSet(s) == {s[i] : i \in DOMAIN s}

(* ------------------------- elements of the graph ---------------------- *)

\* Node::new: radius 5 (the radius the repository's test expects), no flags.
BaseRadius == 5

NewNode(loc) ==
    [location |-> loc, radius |-> Int2F(BaseRadius), selected |-> FALSE,
     dragged |-> FALSE, selected_child |-> FALSE, selected_parent |-> FALSE]

NewEdge(s, t) ==
    [source |-> s, target |-> t, selected |-> FALSE,
     selected_child |-> FALSE, selected_parent |-> FALSE]

\* Metadata::default
DefaultMetadata ==
    [zoom |-> Int2F(1), pan |-> V(0, 0), first_frame |-> TRUE,
     graph_bounds |-> [min |-> V(0, 0), max |-> V(0, 0)]]

\* FrameState::default
DefaultFrameState ==
    [dragged |-> None, selections |-> [some |-> FALSE, data |-> <<>>]]

(* ----------------------------- Change --------------------------------- *)

ChangeNode(idx, fld, old, new) ==
    [kind |-> "node", idx |-> idx, field |-> fld, old |-> old, new |-> new]

ChangeEdge(idx, fld, old, new) ==
    [kind |-> "edge", idx |-> idx, field |-> fld, old |-> old, new |-> new]

\* The part of the widget a mutation sequence threads through: the graph, the
\* channel and whether the frame is still running (ok = FALSE after a panic).
World(ns, es, sk) == [nodes |-> ns, edges |-> es, sink |-> sk, ok |-> TRUE]

\* send_changes that drops the Change when the channel is disconnected.
send_changes_ignoring_errors(w, change) ==
    IF ~w.ok \/ sender # "connected" THEN w
    ELSE [w EXCEPT !.sink = Append(@, change)]

send_changes(w, change) ==
    IF ~w.ok \/ sender = "none" THEN w
    ELSE IF sender = "connected" THEN [w EXCEPT !.sink = Append(@, change)]
    ELSE [w EXCEPT !.ok = FALSE]

set_node_selected(w, idx, val) ==
    IF ~w.ok THEN w
    ELSE send_changes([w EXCEPT !.nodes[idx].selected = val],
                      ChangeNode(idx, "selected", w.nodes[idx].selected, val))

set_edge_selected(w, idx, val) ==
    IF ~w.ok THEN w
    ELSE send_changes([w EXCEPT !.edges[idx].selected = val],
                      ChangeEdge(idx, "selected", w.edges[idx].selected, val))

\* set_dragged that writes the flag and sends no Change.
set_dragged_unsent(w, idx, val) ==
    IF ~w.ok THEN w ELSE [w EXCEPT !.nodes[idx].dragged = val]

set_dragged(w, idx, val) ==
    IF ~w.ok THEN w
    ELSE send_changes([w EXCEPT !.nodes[idx].dragged = val],
                      ChangeNode(idx, "dragged", w.nodes[idx].dragged, val))

move_node(w, idx, delta) ==
    IF ~w.ok THEN w
    ELSE LET new_loc == VAdd(w.nodes[idx].location, delta)
         IN  send_changes([w EXCEPT !.nodes[idx].location = new_loc],
                          ChangeNode(idx, "location", w.nodes[idx].location, new_loc))

\* The receiver of the channel keeps a copy of the fields Changes are about:
\* selected, dragged and location of every node, selected of every edge.
Fields(ns, es) ==
    [nodes |-> [i \in DOMAIN ns |->
                  [selected |-> ns[i].selected, dragged |-> ns[i].dragged,
                   location |-> ns[i].location]],
     edges |-> [i \in DOMAIN es |-> [selected |-> es[i].selected]]]

\* One Change applied to the copy: field := new.
ApplyChange(rep, ch) ==
    IF ch.kind = "node" THEN [rep EXCEPT !.nodes[ch.idx][ch.field] = ch.new]
    ELSE [rep EXCEPT !.edges[ch.idx][ch.field] = ch.new]

\* The Changes received applied in the order they were sent.
RECURSIVE Receive(_, _)
Receive(rep, changes) ==
    IF changes = <<>> THEN rep
    ELSE Receive(ApplyChange(rep, Head(changes)), Tail(changes))

(* ----------------------- Frame State Builder --------------------------- *)

\* Node::reset_precalculated / Edge::reset_precalculated: the radius back to
\* its base value and the two highlight flags cleared.
reset_precalculated_node(n) ==
    [n EXCEPT !.radius = Int2F(BaseRadius),
              !.selected_child = FALSE, !.selected_parent = FALSE]

reset_precalculated_edge(e) ==
    [e EXCEPT !.selected_child = FALSE, !.selected_parent = FALSE]

\* FrameState::edges_by_nodes: the edges grouped by their unordered pair of
\* endpoints, as ((start, end), indices of the edges between them).
PairOf(e) ==
    IF e.source <= e.target THEN <<e.source, e.target>> ELSE <<e.target, e.source>>

edges_by_nodes(es) ==
    { <<p, {i \in DOMAIN es : PairOf(es[i]) = p}>> :
        p \in {PairOf(es[i]) : i \in DOMAIN es} }

\* The radius bonus node i gets: for every pair it is the start of and every
\* pair it is the end of, edge_radius_weight * (number of edges of the pair).
RECURSIVE SumCard(_)
SumCard(groups) ==
    IF groups = {} THEN 0
    ELSE LET g == CHOOSE x \in groups : TRUE
         IN  Cardinality(g[2]) + SumCard(groups \ {g})

RadiusBonus(es, i, weight) ==
    LET groups == edges_by_nodes(es)
        asStart == {g \in groups : g[1][1] = i}
        asEnd == {g \in groups : g[1][2] = i}
    IN  FMul(weight, Int2F(SumCard(asStart) + SumCard(asEnd)))

\* Selections::add_selection: the nodes and edges of the bounded traversal
\* from root: |depth| hops, along outgoing edges when depth > 0 and along
\* incoming edges otherwise.  The root is an element of its own selection.
Step(es, frontier, forward) ==
    {i \in DOMAIN es : IF forward THEN es[i].source \in frontier
                                  ELSE es[i].target \in frontier}

RECURSIVE collect_generations(_, _, _, _, _, _)
collect_generations(es, frontier, forward, hops, ns, eds) ==
    IF hops = 0 \/ frontier = {} THEN [nodes |-> ns, edges |-> eds]
    ELSE LET walked == Step(es, frontier, forward)
             reached == {IF forward THEN es[i].target ELSE es[i].source : i \in walked}
         IN  collect_generations(es, reached \ ns, forward, hops - 1,
                                 ns \cup reached, eds \cup walked)

add_selection(es, root, depth) ==
    LET sel == collect_generations(es, {root}, depth > 0, AbsI(depth), {root}, {})
    IN  [root |-> root, nodes |-> SetToSeq(sel.nodes), edges |-> SetToSeq(sel.edges)]

\* Selections::elements: the nodes and the edges of all selections, one
\* selection after the other.
RECURSIVE Concat(_, _)
Concat(sels, fld) ==
    IF sels = <<>> THEN <<>> ELSE Head(sels)[fld] \o Concat(Tail(sels), fld)

elements(sels) == [nodes |-> Concat(sels, "nodes"), edges |-> Concat(sels, "edges")]

\* precompute_state without the reset: the radius bonus is added to the radius
\* the node has.
precompute_state_no_reset(ns, es, c) ==
    LET sized == [i \in DOMAIN ns |->
                    [ns[i] EXCEPT !.radius =
                        FAdd(@, RadiusBonus(es, i, c.edge_radius_weight))]]
        roots == SetToSeq({i \in DOMAIN ns : ns[i].selected})
        selections == [k \in DOMAIN roots |->
                         add_selection(es, roots[k], c.selection_depth)]
        subselected_nodes ==
            UNION {SeqToSet(selections[k].nodes) \ {selections[k].root} :
                     k \in DOMAIN selections}
        subselected_edges ==
            UNION {SeqToSet(selections[k].edges) : k \in DOMAIN selections}
        child == c.selection_depth > 0
    IN  [nodes |-> [i \in DOMAIN ns |->
                      IF i \in subselected_nodes
                      THEN IF child THEN [sized[i] EXCEPT !.selected_child = TRUE]
                                    ELSE [sized[i] EXCEPT !.selected_parent = TRUE]
                      ELSE sized[i]],
         edges |-> [i \in DOMAIN es |->
                      IF i \in subselected_edges
                      THEN IF child THEN [es[i] EXCEPT !.selected_child = TRUE]
                                    ELSE [es[i] EXCEPT !.selected_parent = TRUE]
                      ELSE es[i]],
         state |-> [DefaultFrameState EXCEPT
                      !.selections = [some |-> TRUE, data |-> selections]]]

\* precompute_state that marks a root among the elements reached from it.
precompute_state_marks_roots(ns, es, c) ==
    LET reset_n == [i \in DOMAIN ns |-> reset_precalculated_node(ns[i])]
        reset_e == [i \in DOMAIN es |-> reset_precalculated_edge(es[i])]
        sized == [i \in DOMAIN ns |->
                    [reset_n[i] EXCEPT !.radius =
                        FAdd(@, RadiusBonus(es, i, c.edge_radius_weight))]]
        roots == SetToSeq({i \in DOMAIN ns : ns[i].selected})
        selections == [k \in DOMAIN roots |->
                         add_selection(es, roots[k], c.selection_depth)]
        subselected_nodes ==
            UNION {SeqToSet(selections[k].nodes) : k \in DOMAIN selections}
        subselected_edges ==
            UNION {SeqToSet(selections[k].edges) : k \in DOMAIN selections}
        child == c.selection_depth > 0
    IN  [nodes |-> [i \in DOMAIN ns |->
                      IF i \in subselected_nodes
                      THEN IF child THEN [sized[i] EXCEPT !.selected_child = TRUE]
                                    ELSE [sized[i] EXCEPT !.selected_parent = TRUE]
                      ELSE sized[i]],
         edges |-> [i \in DOMAIN es |->
                      IF i \in subselected_edges
                      THEN IF child THEN [reset_e[i] EXCEPT !.selected_child = TRUE]
                                    ELSE [reset_e[i] EXCEPT !.selected_parent = TRUE]
                      ELSE reset_e[i]],
         state |-> [DefaultFrameState EXCEPT
                      !.selections = [some |-> TRUE, data |-> selections]]]

\* precompute_state: the graph after the reset, the radius computation and the
\* highlight flags, and the frame's FrameState.
precompute_state(ns, es, c) ==
    LET reset_n == [i \in DOMAIN ns |-> reset_precalculated_node(ns[i])]
        reset_e == [i \in DOMAIN es |-> reset_precalculated_edge(es[i])]
        sized == [i \in DOMAIN ns |->
                    [reset_n[i] EXCEPT !.radius =
                        FAdd(@, RadiusBonus(es, i, c.edge_radius_weight))]]
        roots == SetToSeq({i \in DOMAIN ns : ns[i].selected})
        selections == [k \in DOMAIN roots |->
                         add_selection(es, roots[k], c.selection_depth)]
        subselected_nodes ==
            UNION {SeqToSet(selections[k].nodes) \ {selections[k].root} :
                     k \in DOMAIN selections}
        subselected_edges ==
            UNION {SeqToSet(selections[k].edges) : k \in DOMAIN selections}
        child == c.selection_depth > 0
    IN  [nodes |-> [i \in DOMAIN ns |->
                      IF i \in subselected_nodes
                      THEN IF child THEN [sized[i] EXCEPT !.selected_child = TRUE]
                                    ELSE [sized[i] EXCEPT !.selected_parent = TRUE]
                      ELSE sized[i]],
         edges |-> [i \in DOMAIN es |->
                      IF i \in subselected_edges
                      THEN IF child THEN [reset_e[i] EXCEPT !.selected_child = TRUE]
                                    ELSE [reset_e[i] EXCEPT !.selected_parent = TRUE]
                      ELSE reset_e[i]],
         state |-> [DefaultFrameState EXCEPT
                      !.selections = [some |-> TRUE, data |-> selections]]]

(* --------------------------- viewport --------------------------------- *)

\* bounding_rect: the fold over the nodes, in index order, of the four
\* strict comparisons; (MAX, MAX)-(MIN, MIN) when there is no node.
RECURSIVE bounding_fold(_, _, _)
bounding_fold(ns, ids, acc) ==
    IF ids = <<>> THEN acc
    ELSE LET n == ns[Head(ids)]
             x_minus_rad == FSub(n.location[1], n.radius)
             y_minus_rad == FSub(n.location[2], n.radius)
             x_plus_rad == FAdd(n.location[1], n.radius)
             y_plus_rad == FAdd(n.location[2], n.radius)
         IN  bounding_fold(ns, Tail(ids),
                [min_x |-> IF FLt(x_minus_rad, acc.min_x) THEN x_minus_rad ELSE acc.min_x,
                 min_y |-> IF FLt(y_minus_rad, acc.min_y) THEN y_minus_rad ELSE acc.min_y,
                 max_x |-> IF FLt(acc.max_x, x_plus_rad) THEN x_plus_rad ELSE acc.max_x,
                 max_y |-> IF FLt(acc.max_y, y_plus_rad) THEN y_plus_rad ELSE acc.max_y])

\* bounding_rect over the node centers, the radii left out.
bounding_rect_centers(ns) ==
    LET acc == bounding_fold([i \in DOMAIN ns |-> [ns[i] EXCEPT !.radius = Int2F(0)]],
                   SetToSeq(DOMAIN ns),
                   [min_x |-> Int2F(MAX), min_y |-> Int2F(MAX), max_x |-> MIN, max_y |-> MIN])
    IN  [min |-> <<acc.min_x, acc.min_y>>, max |-> <<acc.max_x, acc.max_y>>]

bounding_rect(ns) ==
    LET acc == bounding_fold(ns, SetToSeq(DOMAIN ns),
                   [min_x |-> Int2F(MAX), min_y |-> Int2F(MAX), max_x |-> MIN, max_y |-> MIN])
    IN  [min |-> <<acc.min_x, acc.min_y>>, max |-> <<acc.max_x, acc.max_y>>]

\* node_by_pos: the first node, in index order, whose circle holds the
\* position once it is transformed to graph coordinates.
node_by_pos(ns, metadata, pos) ==
    LET pos_in_graph == VDiv(VSub(pos, metadata.pan), metadata.zoom)
        hits == {i \in DOMAIN ns :
                    LengthLe(VSub(ns[i].location, pos_in_graph), ns[i].radius)}
    IN  IF hits = {} THEN None ELSE Some(CHOOSE i \in hits : \A j \in hits : i <= j)

\* zoom: the anchored zoom; zoom_center is an Option<Pos2>.
zoom(rect, delta, zoom_center, md) ==
    LET center_pos == IF zoom_center # None THEN VSub(Unwrap(zoom_center), rect.min)
                      ELSE VSub(RectCenter(rect), rect.min)
        graph_center_pos == VDiv(VSub(center_pos, md.pan), md.zoom)
        factor == FAdd(Int2F(1), delta)
        new_zoom == FMul(md.zoom, factor)
    IN  [md EXCEPT !.pan = VAdd(@, VSub(VMul(graph_center_pos, md.zoom),
                                        VMul(graph_center_pos, new_zoom))),
                   !.zoom = new_zoom]

fit_to_screen(rect, md, c) ==
    LET diag == VSub(md.graph_bounds.max, md.graph_bounds.min)
        graph_size == VMul(diag, FAdd(Int2F(1), c.screen_padding))
        canvas_size == RectSize(rect)
        zoom_x == FDiv(canvas_size[1], graph_size[1])
        zoom_y == FDiv(canvas_size[2], graph_size[2])
        new_zoom == FMin(zoom_x, zoom_y)
        zoom_delta == FSub(FDiv(new_zoom, md.zoom), Int2F(1))
        zoomed == zoom(rect, zoom_delta, None, md)
        graph_center == VDiv(VAdd(md.graph_bounds.min, md.graph_bounds.max), Int2F(2))
    IN  [zoomed EXCEPT !.pan = VSub(RectCenter(rect), VMul(graph_center, new_zoom))]

\* fit_if_first that fits in every frame, whatever first_frame is.
fit_if_first_every_frame(ns, rect, md, c) ==
    [fit_to_screen(rect, [md EXCEPT !.graph_bounds = bounding_rect(ns)], c)
        EXCEPT !.first_frame = FALSE]

\* fit_if_first
fit_if_first(ns, rect, md, c) ==
    IF ~md.first_frame THEN md
    ELSE [fit_to_screen(rect, [md EXCEPT !.graph_bounds = bounding_rect(ns)], c)
            EXCEPT !.first_frame = FALSE]

(* ----------------------- selection and dragging ------------------------ *)

Panic(w) == [w EXCEPT !.ok = FALSE]

\* One element of deselect_all's first loop: the Change, then the two flags.
deselect_node(w, idx) ==
    LET w1 == set_node_selected(w, idx, FALSE)
    IN  IF ~w1.ok THEN w1
        ELSE [w1 EXCEPT !.nodes[idx].selected_child = FALSE,
                        !.nodes[idx].selected_parent = FALSE]

\* One element of deselect_all's second loop.
deselect_edge(w, idx) ==
    LET w1 == set_edge_selected(w, idx, FALSE)
    IN  IF ~w1.ok THEN w1
        ELSE [w1 EXCEPT !.edges[idx].selected_child = FALSE,
                        !.edges[idx].selected_parent = FALSE]

RECURSIVE deselect_nodes(_, _)
deselect_nodes(w, ids) ==
    IF ids = <<>> THEN w ELSE deselect_nodes(deselect_node(w, Head(ids)), Tail(ids))

RECURSIVE deselect_edges(_, _)
deselect_edges(w, ids) ==
    IF ids = <<>> THEN w ELSE deselect_edges(deselect_edge(w, Head(ids)), Tail(ids))

deselect_all(w, st) ==
    IF ~st.selections.some THEN w
    ELSE LET el == elements(st.selections.data)
         IN  deselect_edges(deselect_nodes(w, el.nodes), el.edges)

\* handle_node_click without the toggle branch: a selected node is selected again.
handle_node_click_no_toggle(w, idx, st, c) ==
    IF ~c.node_select THEN w
    ELSE set_node_selected(IF ~c.node_multiselect THEN deselect_all(w, st) ELSE w,
                           idx, TRUE)

\* handle_node_click that never deselects the other elements.
handle_node_click_no_deselect(w, idx, st, c) ==
    IF ~c.node_select THEN w
    ELSE IF w.nodes[idx].selected THEN set_node_selected(w, idx, FALSE)
    ELSE set_node_selected(w, idx, TRUE)

handle_node_click(w, idx, st, c) ==
    IF ~c.node_select THEN w
    ELSE IF w.nodes[idx].selected THEN set_node_selected(w, idx, FALSE)
    ELSE set_node_selected(IF ~c.node_multiselect THEN deselect_all(w, st) ELSE w,
                           idx, TRUE)

handle_click(w, r, st, md, c) ==
    IF ~r.clicked THEN w
    ELSE IF ~(c.node_click \/ c.node_select \/ c.node_multiselect) THEN w
    ELSE IF r.hover_pos = None THEN Panic(w)
    ELSE LET node == node_by_pos(w.nodes, md, Unwrap(r.hover_pos))
         IN  IF node = None
             THEN (IF c.node_select \/ c.node_multiselect THEN deselect_all(w, st) ELSE w)
             ELSE handle_node_click(w, Unwrap(node), st, c)

\* handle_nodes_drags that moves the node by the screen-space delta.
handle_nodes_drags_screen_delta(w, r, st, md, c) ==
    IF ~c.node_drag THEN w
    ELSE LET w1 == IF ~r.drag_started THEN w
                   ELSE IF r.hover_pos = None THEN Panic(w)
                   ELSE LET node == node_by_pos(w.nodes, md, Unwrap(r.hover_pos))
                        IN  IF node = None THEN w ELSE set_dragged(w, Unwrap(node), TRUE)
             w2 == IF r.dragged /\ st.dragged # None
                   THEN move_node(w1, Unwrap(st.dragged), r.drag_delta)
                   ELSE w1
         IN  IF r.drag_released /\ st.dragged # None
             THEN set_dragged(w2, Unwrap(st.dragged), FALSE)
             ELSE w2

handle_nodes_drags(w, r, st, md, c) ==
    IF ~c.node_drag THEN w
    ELSE LET w1 == IF ~r.drag_started THEN w
                   ELSE IF r.hover_pos = None THEN Panic(w)
                   ELSE LET node == node_by_pos(w.nodes, md, Unwrap(r.hover_pos))
                        IN  IF node = None THEN w ELSE set_dragged(w, Unwrap(node), TRUE)
             w2 == IF r.dragged /\ st.dragged # None
                   THEN move_node(w1, Unwrap(st.dragged), VDiv(r.drag_delta, md.zoom))
                   ELSE w1
         IN  IF r.drag_released /\ st.dragged # None
             THEN set_dragged(w2, Unwrap(st.dragged), FALSE)
             ELSE w2

(* ----------------------------- navigation ----------------------------- *)

handle_zoom(r, md, c) ==
    IF ~c.zoom_and_pan THEN md
    ELSE IF FEq(r.zoom_delta, Int2F(1)) THEN md
    ELSE LET step == FMul(c.zoom_step, FSignum(FSub(Int2F(1), r.zoom_delta)))
         IN  zoom(c.rect, step, r.hover_pos, md)

handle_pan(r, st, md, c) ==
    IF ~c.zoom_and_pan THEN md
    ELSE IF r.dragged /\ st.dragged = None
         THEN [md EXCEPT !.pan = VAdd(@, r.drag_delta)]
         ELSE md

(* ------------------------- graphs and settings ------------------------ *)

\* The graphs of the model: node locations (NodeIndex 0, 1, 2 in order) and
\* directed edges (EdgeIndex 0, 1, ... in order).  "test" is the graph of the
\* repository's test, "chain" is 0 -> 1 -> 2, "empty" has no node.
NodeLocations == <<V(0, 0), V(10, 10), V(20, 20)>>

GraphEdges(name) ==
    IF name = "chain" THEN << <<0, 1>>, <<1, 2>> >>
    ELSE IF name = "test" THEN << <<0, 1>>, <<0, 2>>, <<1, 2>> >>
    ELSE <<>>

GraphNodes(name) == IF name = "empty" THEN <<>> ELSE NodeLocations

MkNodes(locs, selected) ==
    [i \in 0..(Len(locs) - 1) |-> [NewNode(locs[i + 1]) EXCEPT !.selected = i \in selected]]

MkEdges(es, selected) ==
    [i \in 0..(Len(es) - 1) |->
        [NewEdge(es[i + 1][1], es[i + 1][2]) EXCEPT !.selected = i \in selected]]

\* What the client hands to the widget: a graph with the selected flags it
\* set, the settings, the viewport rect and the channel.
Settings(click, select, multi, drag, depth, zap, fit, step, padding, rect) ==
    [node_click |-> click, node_select |-> select, node_multiselect |-> multi,
     node_drag |-> drag, selection_depth |-> depth,
     zoom_and_pan |-> zap, fit_to_screen |-> fit, zoom_step |-> step,
     screen_padding |-> padding, edge_radius_weight |-> Int2F(1), rect |-> rect]

Canvas == [min |-> V(0, 0), max |-> V(64, 64)]

OffsetCanvas == [min |-> V(8, 8), max |-> V(72, 72)]

EmptyCanvas == [min |-> V(0, 0), max |-> V(0, 0)]

SelectionSettings ==
    {Settings(FALSE, sel, multi, FALSE, depth, FALSE, FALSE, Rat(1, 2), Int2F(0), Canvas) :
        sel \in BOOLEAN, multi \in BOOLEAN, depth \in {0 - 1, 0, 1, 2}}

DragSettings ==
    {Settings(cs[1], cs[2], FALSE, TRUE, 1, FALSE, FALSE, Rat(1, 2), Int2F(0), Canvas) :
        cs \in {<<FALSE, FALSE>>, <<TRUE, FALSE>>, <<FALSE, TRUE>>}}

NavigationSettings ==
    {Settings(FALSE, FALSE, FALSE, TRUE, 1, TRUE, FALSE, step, padding, rect) :
        step \in {Rat(1, 2), Int2F(1)},
        padding \in {Int2F(0), Int2F(1)}, rect \in {OffsetCanvas, EmptyCanvas}}
    \cup
    {Settings(FALSE, FALSE, FALSE, TRUE, 1, FALSE, TRUE, Rat(1, 2), padding, rect) :
        padding \in {Int2F(0), Int2F(1)}, rect \in {OffsetCanvas, EmptyCanvas}}

Scenarios ==
    {[graph |-> g, nodes |-> ns, edges |-> es, cfg |-> c, sender |-> "connected"] :
        g \in {"chain", "test"}, ns \in {{}, {0}, {1}, {0, 1}}, es \in {{}, {1}},
        c \in SelectionSettings}
    \cup
    {[graph |-> g, nodes |-> ns, edges |-> {}, cfg |-> c, sender |-> snd] :
        g \in {"chain"}, ns \in {{}, {1}}, c \in DragSettings,
        snd \in {"none", "connected", "disconnected"}}
    \cup
    {[graph |-> g, nodes |-> {}, edges |-> {}, cfg |-> c, sender |-> "connected"] :
        g \in {"empty", "chain"}, c \in NavigationSettings}

\* The input a frame can get.  A drag that starts in a frame is a drag in
\* progress in it (egui: drag_started() implies dragged()), and the drag delta
\* is zero unless a drag is in progress.  The pointer, when it has a position,
\* is over the widget.
PointerPositions == {V(12, 12), V(32, 32), V(60, 4)}

DragDeltas == {<<Int2F(20), Int2F(10)>>}

ZoomDeltas == {Rat(1, 2), Int2F(1), Int2F(2)}

Inputs ==
    {[clicked |-> cl, hover_pos |-> hp, drag_started |-> ds, dragged |-> dr,
      drag_released |-> rl, drag_delta |-> dd, zoom_delta |-> zd] :
        cl \in BOOLEAN, hp \in {None} \cup {Some(q) : q \in PointerPositions},
        ds \in BOOLEAN, dr \in BOOLEAN, rl \in BOOLEAN,
        dd \in DragDeltas \cup {V(0, 0)}, zd \in ZoomDeltas}

\* The parts of the input the widget reads under settings c: handle_click
\* reads the click only when a click flag is set, handle_nodes_drags the drag
\* only with node_drag, handle_zoom and handle_pan the zoom delta and the drag
\* only with zoom_and_pan and without fit_to_screen.
ReadsClick(c) == c.node_click \/ c.node_select \/ c.node_multiselect

ReadsNavigation(c) == c.zoom_and_pan /\ ~c.fit_to_screen

\* An input is one the host can deliver, with the parts the widget does not
\* read under its settings left at their idle value (they cannot change what
\* the frame does).
ValidInput(r, c) ==
    /\ r.drag_started => r.dragged
    /\ r.dragged <=> r.drag_delta # V(0, 0)
    /\ r.clicked => ReadsClick(c)
    /\ (r.drag_started \/ r.drag_released) => c.node_drag
    /\ r.dragged => (c.node_drag \/ ReadsNavigation(c))
    /\ ~FEq(r.zoom_delta, Int2F(1)) => ReadsNavigation(c)
    /\ (r.hover_pos # None) =>
          (r.clicked \/ r.drag_started \/ ~FEq(r.zoom_delta, Int2F(1)))

NoInput ==
    [clicked |-> FALSE, hover_pos |-> None, drag_started |-> FALSE, dragged |-> FALSE,
     drag_released |-> FALSE, drag_delta |-> V(0, 0), zoom_delta |-> Int2F(1)]

(* ------------------------------ frames -------------------------------- *)

Init ==
    \E sc \in Scenarios :
        /\ nodes = MkNodes(GraphNodes(sc.graph), sc.nodes)
        /\ edges = MkEdges(GraphEdges(sc.graph), sc.edges)
        /\ cfg = sc.cfg
        /\ sender = sc.sender
        /\ sink = <<>>
        /\ meta = DefaultMetadata
        /\ m = DefaultMetadata
        /\ state = DefaultFrameState
        /\ resp = NoInput
        /\ pc = "idle"
        /\ frame = 0
        /\ replica = Fields(nodes, edges)

\* Widget::ui calling handle_click before handle_nodes_drags.
ui_click_first ==
    <<"precompute_state", "fit_if_first", "draw", "handle_click",
      "handle_nodes_drags", "handle_navigation", "store">>

\* Widget::ui: the order in which a frame calls the widget's steps, between
\* Metadata::get and meta.store.
ui ==
    <<"precompute_state", "fit_if_first", "draw", "handle_nodes_drags",
      "handle_click", "handle_navigation", "store">>

After(step) == ui[(CHOOSE k \in DOMAIN ui : ui[k] = step) + 1]

\* The frame's mutations w applied to the graph and the channel; a panic
\* ends the frame and the widget.
Apply(w, next) ==
    /\ nodes' = w.nodes
    /\ edges' = w.edges
    /\ sink' = w.sink
    /\ replica' = Receive(replica, SubSeq(w.sink, Len(sink) + 1, Len(w.sink)))
    /\ pc' = IF w.ok THEN next ELSE "panicked"

Here == World(nodes, edges, sink)

\* ui, line 49: Metadata::get, with the input the host delivers this frame.
MetadataGet ==
    /\ pc = "idle"
    /\ frame < MaxFrames
    /\ \E r \in Inputs : ValidInput(r, cfg) /\ resp' = r
    /\ m' = meta
    /\ sink' = <<>>
    /\ state' = DefaultFrameState
    /\ pc' = ui[1]
    /\ UNCHANGED <<nodes, edges, cfg, sender, meta, frame, replica>>

PrecomputeState ==
    /\ pc = "precompute_state"
    /\ LET res == precompute_state(nodes, edges, cfg)
       IN  /\ nodes' = res.nodes
           /\ edges' = res.edges
           /\ state' = res.state
    /\ pc' = After("precompute_state")
    /\ UNCHANGED <<cfg, sender, sink, meta, m, resp, frame, replica>>

FitIfFirst ==
    /\ pc = "fit_if_first"
    /\ m' = fit_if_first(nodes, cfg.rect, m, cfg)
    /\ pc' = After("fit_if_first")
    /\ UNCHANGED <<nodes, edges, cfg, sender, sink, meta, state, resp, frame, replica>>

\* draw: the drawer records the node whose dragged flag is set as the frame's
\* dragged node (one of them when several are set).
draw(ns, st) ==
    {[st EXCEPT !.dragged = d] :
        d \in IF \E i \in DOMAIN ns : ns[i].dragged
              THEN {Some(i) : i \in {j \in DOMAIN ns : ns[j].dragged}}
              ELSE {None}}

Draw ==
    /\ pc = "draw"
    /\ state' \in draw(nodes, state)
    /\ pc' = After("draw")
    /\ UNCHANGED <<nodes, edges, cfg, sender, sink, meta, m, resp, frame, replica>>

HandleNodesDrags ==
    /\ pc = "handle_nodes_drags"
    /\ Apply(handle_nodes_drags(Here, resp, state, m, cfg), After("handle_nodes_drags"))
    /\ UNCHANGED <<cfg, sender, meta, m, state, resp, frame>>

HandleClick ==
    /\ pc = "handle_click"
    /\ Apply(handle_click(Here, resp, state, m, cfg), After("handle_click"))
    /\ UNCHANGED <<cfg, sender, meta, m, state, resp, frame>>

\* handle_navigation, the fit_to_screen branch.
HandleNavigationFit ==
    /\ pc = "handle_navigation"
    /\ cfg.fit_to_screen
    /\ m' = fit_to_screen(cfg.rect, m, cfg)
    /\ pc' = After("handle_navigation")
    /\ UNCHANGED <<nodes, edges, cfg, sender, sink, meta, state, resp, frame, replica>>

HandleZoom ==
    /\ pc = "handle_navigation"
    /\ ~cfg.fit_to_screen
    /\ m' = handle_zoom(resp, m, cfg)
    /\ pc' = "handle_pan"
    /\ UNCHANGED <<nodes, edges, cfg, sender, sink, meta, state, resp, frame, replica>>

\* handle_pan that pans by translating every node instead of the viewport.
HandlePanMovingNodes ==
    /\ pc = "handle_pan"
    /\ nodes' = IF cfg.zoom_and_pan /\ resp.dragged /\ state.dragged = None
                THEN [i \in NodeIds |->
                        [nodes[i] EXCEPT !.location = VAdd(@, VDiv(resp.drag_delta, m.zoom))]]
                ELSE nodes
    /\ pc' = After("handle_navigation")
    /\ UNCHANGED <<edges, cfg, sender, sink, meta, m, state, resp, frame, replica>>

HandlePan ==
    /\ pc = "handle_pan"
    /\ m' = handle_pan(resp, state, m, cfg)
    /\ pc' = After("handle_navigation")
    /\ UNCHANGED <<nodes, edges, cfg, sender, sink, meta, state, resp, frame, replica>>

\* ui, line 62: meta.store; the frame is over, its FrameState and Response
\* are dropped.
MetadataStore ==
    /\ pc = "store"
    /\ meta' = m
    /\ frame' = frame + 1
    /\ state' = DefaultFrameState
    /\ resp' = NoInput
    /\ pc' = "idle"
    /\ UNCHANGED <<nodes, edges, cfg, sender, sink, m, replica>>

\* reset_metadata, called by the client between two frames: the default
\* Metadata replaces the persisted one.
reset_metadata ==
    /\ pc = "idle"
    /\ frame >= 1
    /\ frame < MaxFrames
    /\ meta # DefaultMetadata
    /\ meta' = DefaultMetadata
    /\ UNCHANGED <<nodes, edges, cfg, sender, sink, m, state, resp, pc, frame, replica>>

Next ==
    \/ MetadataGet
    \/ PrecomputeState
    \/ FitIfFirst
    \/ Draw
    \/ HandleNodesDrags
    \/ HandleClick
    \/ HandleNavigationFit
    \/ HandleZoom
    \/ HandlePan
    \/ MetadataStore
    \/ reset_metadata

Spec == Init /\ [][Next]_vars

(* ------------------------------ claims -------------------------------- *)

\* The Changes the channel's receiver gets in the step.
Emitted == SubSeq(sink', Len(sink) + 1, Len(sink'))

\* The node the frame's click hits, as handle_click finds it (an Option).
ClickHit ==
    IF resp.clicked /\ resp.hover_pos # None
    THEN node_by_pos(nodes, m, Unwrap(resp.hover_pos))
    ELSE None

SelectedNodes == {i \in NodeIds : nodes[i].selected}

SelectedEdges == {i \in EdgeIds : edges[i].selected}

\* C1 (selection toggle): when click handling runs for a click that hits a
\* node whose selected flag is set, with node_select enabled (node_multiselect
\* on or off) and the channel not disconnected, the node ends with selected =
\* FALSE, no other node's or edge's selected flag changes, and the receiver
\* gets exactly one Change, (node, that index, selected, TRUE -> FALSE)
\* (none when no channel is registered).
C1_SelectionToggle ==
    [][(/\ pc = "handle_click"
        /\ cfg.node_select
        /\ sender # "disconnected"
        /\ ClickHit # None
        /\ nodes[Unwrap(ClickHit)].selected)
       => LET i == Unwrap(ClickHit)
          IN  /\ ~nodes'[i].selected
              /\ \A j \in NodeIds \ {i} : nodes'[j].selected = nodes[j].selected
              /\ \A e \in EdgeIds : edges'[e].selected = edges[e].selected
              /\ Emitted = IF sender = "connected"
                           THEN <<ChangeNode(i, "selected", TRUE, FALSE)>>
                           ELSE <<>>]_vars

\* Click handling has toggled off a selected node while another node stays
\* selected.
C1_Witness ==
    /\ pc = After("handle_click")
    /\ resp.clicked
    /\ cfg.node_select
    /\ resp.hover_pos # None
    /\ \E i \in NodeIds :
        /\ node_by_pos(nodes, m, Unwrap(resp.hover_pos)) = Some(i)
        /\ ~nodes[i].selected
        /\ sink = <<ChangeNode(i, "selected", TRUE, FALSE)>>
        /\ \E j \in NodeIds \ {i} : nodes[j].selected

\* C4 (single-select exclusivity): with node_select enabled and
\* node_multiselect disabled, click handling for a click that hits a node
\* whose selected flag is clear leaves the hit node the only selected node;
\* and no step of a frame takes a graph with at most one selected node to a
\* graph with more than one, so a graph that starts with no selected node
\* never has two.
C4_SingleSelect ==
    [][/\ (/\ pc = "handle_click"
           /\ cfg.node_select
           /\ ~cfg.node_multiselect
           /\ sender # "disconnected"
           /\ ClickHit # None
           /\ ~nodes[Unwrap(ClickHit)].selected)
          => \A j \in NodeIds : nodes'[j].selected <=> j = Unwrap(ClickHit)
       /\ (/\ cfg.node_select
           /\ ~cfg.node_multiselect
           /\ Cardinality(SelectedNodes) <= 1)
          => Cardinality({j \in NodeIds : nodes'[j].selected}) <= 1]_vars

\* A click on an unselected node has deselected another node and selected the
\* hit one.
C4_Witness ==
    /\ pc = After("handle_click")
    /\ cfg.node_select
    /\ ~cfg.node_multiselect
    /\ \E i \in NodeIds :
        /\ SelectedNodes = {i}
        /\ Len(sink) >= 2
        /\ sink[Len(sink)] = ChangeNode(i, "selected", FALSE, TRUE)
        /\ \E j \in NodeIds \ {i} : sink[1] = ChangeNode(j, "selected", TRUE, FALSE)

IsLocationChange(ch) == ch.field = "location"

\* C5 (drag translation): when drag handling runs with node_drag enabled, a
\* drag in progress and a node d recorded as the frame's dragged node (and the
\* frame is not aborted by a disconnected channel or by a drag start without a
\* pointer position), d's location becomes location + drag_delta / zoom, the
\* receiver gets exactly one location Change, (d, old location -> new
\* location), and no other node's location changes; at zoom 2 a delta of
\* (20, 10) moves d by (10, 5).
C5_DragTranslation ==
    [][(/\ pc = "handle_nodes_drags"
        /\ cfg.node_drag
        /\ resp.dragged
        /\ state.dragged # None
        /\ sender # "disconnected"
        /\ ~(resp.drag_started /\ resp.hover_pos = None))
       => LET d == Unwrap(state.dragged)
              old == nodes[d].location
              new == VAdd(old, <<FDiv(resp.drag_delta[1], m.zoom),
                                 FDiv(resp.drag_delta[2], m.zoom)>>)
          IN  /\ nodes'[d].location = new
              /\ \A j \in NodeIds \ {d} : nodes'[j].location = nodes[j].location
              /\ SelectSeq(Emitted, IsLocationChange) =
                    IF sender = "connected"
                    THEN <<ChangeNode(d, "location", old, new)>>
                    ELSE <<>>
              /\ (m.zoom = Int2F(2) /\ resp.drag_delta = V(20, 10))
                    => nodes'[d].location = VAdd(old, V(10, 5))]_vars

\* Drag handling has moved the dragged node by (10, 5) at zoom 2.
C5_Witness ==
    /\ pc = After("handle_nodes_drags")
    /\ cfg.node_drag
    /\ resp.dragged
    /\ resp.drag_delta = V(20, 10)
    /\ m.zoom = Int2F(2)
    /\ \E d \in NodeIds :
        /\ state.dragged = Some(d)
        /\ \E k \in DOMAIN sink :
              /\ sink[k].field = "location"
              /\ sink[k].idx = d
              /\ sink[k].new = VAdd(sink[k].old, V(10, 5))
              /\ nodes[d].location = sink[k].new

\* The frame's click is on empty space and click handling deselects.
EmptyClick ==
    /\ pc = "handle_click"
    /\ resp.clicked
    /\ resp.hover_pos # None
    /\ ClickHit = None
    /\ cfg.node_select \/ cfg.node_multiselect
    /\ sender # "disconnected"

\* C2 (deselect-all leaves nothing selected): after click handling for a click
\* that hits no node, with node_select or node_multiselect enabled, no node
\* and no edge has selected = TRUE.
C2_DeselectAllClears ==
    [][EmptyClick =>
          /\ \A i \in NodeIds : ~nodes'[i].selected
          /\ \A e \in EdgeIds : ~edges'[e].selected]_vars

\* The frames of the graphs in which the client selected no edge.
InitNoEdgeSelected == Init /\ \A e \in EdgeIds : ~edges[e].selected

SpecNoEdgeSelected == InitNoEdgeSelected /\ [][Next]_vars

\* C3 (deselect-all event count): the Changes a deselect-all on an empty click
\* sends are one per node and edge whose selected flag was set, each a
\* selected Change TRUE -> FALSE, and nothing else.
C3_DeselectAllEvents ==
    [][(EmptyClick /\ sender = "connected") =>
          /\ Len(Emitted) = Cardinality(SelectedNodes) + Cardinality(SelectedEdges)
          /\ \A k \in DOMAIN Emitted :
                /\ Emitted[k].field = "selected"
                /\ Emitted[k].old = TRUE
                /\ Emitted[k].new = FALSE
          /\ \A i \in SelectedNodes :
                \E k \in DOMAIN Emitted : Emitted[k].kind = "node" /\ Emitted[k].idx = i
          /\ \A e \in SelectedEdges :
                \E k \in DOMAIN Emitted : Emitted[k].kind = "edge" /\ Emitted[k].idx = e]_vars

\* C6 (navigation is invisible to the graph): the steps fit_if_first,
\* handle_navigation's fit_to_screen, handle_zoom and handle_pan send no
\* Change and leave every node and edge, the FrameState, the settings and the
\* persisted Metadata as they are: only the frame's Metadata may change.
C6_NavigationInvisible ==
    [][(pc \in {"fit_if_first", "handle_navigation", "handle_pan"}) =>
          /\ nodes' = nodes
          /\ edges' = edges
          /\ sink' = sink
          /\ state' = state
          /\ meta' = meta]_vars

\* Navigation has zoomed and panned the viewport of a graph with nodes in a
\* frame after the first.
C6_Witness ==
    /\ pc = "store"
    /\ frame >= 1
    /\ NodeIds # {}
    /\ resp.dragged
    /\ ~FEq(resp.zoom_delta, Int2F(1))
    /\ m.zoom # meta.zoom
    /\ m.pan # meta.pan

\* C7 (pan and node drag are mutually exclusive): handle_pan changes pan only
\* with zoom_and_pan enabled, a drag in progress and no node with dragged =
\* TRUE; in a frame in which some node has dragged = TRUE, the frame the drag
\* starts in included, it leaves pan as it is.
C7_PanExcludesNodeDrag ==
    [][(pc = "handle_pan") =>
          /\ (m'.pan # m.pan) =>
                /\ cfg.zoom_and_pan
                /\ resp.dragged
                /\ \A i \in NodeIds : ~nodes[i].dragged
          /\ (\E i \in NodeIds : nodes[i].dragged) => m'.pan = m.pan]_vars

IsSelectionChange(ch) == ch.field = "selected"

IsDragChange(ch) == ch.field \in {"dragged", "location"}

\* C8 (event order within a frame), as claimed: in the Changes of a frame no
\* drag Change (dragged flag or location) comes before a selection Change.
C8_SelectionBeforeDrag ==
    \A i, j \in DOMAIN sink :
        (i < j) => ~(IsDragChange(sink[i]) /\ IsSelectionChange(sink[j]))

\* C8, amended: in the Changes of a frame every drag Change comes before
\* every selection Change (when click handling starts the frame's Changes are
\* all drag Changes), and Changes are sent only by drag handling and click
\* handling, which both run before navigation updates the viewport.
C8_DragBeforeSelection ==
    /\ [](/\ \A i, j \in DOMAIN sink :
                (i < j) => ~(IsSelectionChange(sink[i]) /\ IsDragChange(sink[j]))
          /\ (pc = "handle_click") => \A i \in DOMAIN sink : IsDragChange(sink[i])
          /\ (pc = "handle_nodes_drags") => sink = <<>>)
    /\ [][(Emitted # <<>> \/ pc \in {"handle_nodes_drags", "handle_click"}) =>
             /\ pc \in {"handle_nodes_drags", "handle_click"}
             /\ m' = m
             /\ pc' \in {"handle_click", "handle_navigation", "panicked"}]_vars

\* A frame has sent a drag Change and then a selection Change.
C8_Witness ==
    /\ pc = "handle_navigation"
    /\ \E i, j \in DOMAIN sink :
          i < j /\ IsDragChange(sink[i]) /\ IsSelectionChange(sink[j])

\* C9 (viewport invariant): the persisted zoom is strictly greater than 0.
C9_ZoomPositive == FLt(Int2F(0), meta.zoom)

(* ------------------- the zoom transform on its own -------------------- *)

\* zoom applied once to a Metadata, a rect, an anchor and a delta drawn from
\* small sets: meta is the Metadata before the call, m the Metadata after it.
ZoomValues == {Rat(1, 2), Int2F(1), Int2F(2), Int2F(3)}

PanValues == {V(0, 0), V(12, 12), <<Int2F(0 - 5), Int2F(7)>>}

DeltaValues == {Rat(0 - 3, 2), Int2F(0 - 1), Rat(0 - 1, 2), Rat(1, 2), Int2F(1), Int2F(2)}

InitZoom ==
    /\ nodes = <<>>
    /\ edges = <<>>
    /\ \E rect \in {Canvas, OffsetCanvas} : cfg = [rect |-> rect]
    /\ sender = "none"
    /\ sink = <<>>
    /\ \E z \in ZoomValues, pan \in PanValues :
          meta = [DefaultMetadata EXCEPT !.zoom = z, !.pan = pan, !.first_frame = FALSE]
    /\ m = meta
    /\ state = DefaultFrameState
    /\ \E d \in DeltaValues, c \in {None} \cup {Some(q) : q \in PointerPositions} :
          resp = [delta |-> d, zoom_center |-> c]
    /\ pc = "zoom"
    /\ frame = 0
    /\ replica = Fields(nodes, edges)

ZoomCall ==
    /\ pc = "zoom"
    /\ m' = zoom(cfg.rect, resp.delta, resp.zoom_center, m)
    /\ pc' = "zoomed"
    /\ UNCHANGED <<nodes, edges, cfg, sender, sink, meta, state, resp, frame, replica>>

SpecZoom == InitZoom /\ [][ZoomCall]_vars

\* The anchor of the call, relative to the viewport origin.
Anchor ==
    IF resp.zoom_center # None THEN VSub(Unwrap(resp.zoom_center), cfg.rect.min)
    ELSE VSub(RectCenter(cfg.rect), cfg.rect.min)

\* screenToGraph: the graph-space point under screen point q.
GraphPoint(q, md) ==
    <<FDiv(FSub(q[1], md.pan[1]), md.zoom), FDiv(FSub(q[2], md.pan[2]), md.zoom)>>

VEq(a, b) == FEq(a[1], b[1]) /\ FEq(a[2], b[2])

AnchorPreserved ==
    /\ FEq(m.zoom, FMul(meta.zoom, FAdd(Int2F(1), resp.delta)))
    /\ VEq(GraphPoint(Anchor, meta), GraphPoint(Anchor, m))

\* C10 (anchored zoom invariant): for every pan, every zoom > 0, every anchor
\* (the viewport center when none is given) and every nonzero delta, the call
\* sets zoom' = zoom * (1 + delta) and the graph-space point under the anchor,
\* taken relative to the viewport origin, is the same before and after.
C10_AnchoredZoom == (pc = "zoomed") => AnchorPreserved

\* The calls C10_AnchoredZoom fails on are those with delta = -1, which make
\* zoom' = 0: with any other delta the anchor is preserved.
AnchoredZoomNonzeroFactor ==
    (pc = "zoomed" /\ resp.delta # Int2F(0 - 1)) => AnchorPreserved

(* --------------------------- fit to screen ---------------------------- *)

\* The frames of the non-empty graphs shown in a viewport that is not empty.
InitVisibleGraph == Init /\ NodeIds # {} /\ cfg.rect # EmptyCanvas

SpecVisibleGraph == InitVisibleGraph /\ [][Next]_vars

\* graphToScreen: the screen point of graph-space point g.
GraphToScreen(g, md) == VAdd(VMul(g, md.zoom), md.pan)

\* Metadata md fits the graph as it is now: the center of the bounding rect of
\* the nodes maps to the center of the viewport and zoom is the smaller of the
\* two ratios of the viewport to the padded box.
Fits(md) ==
    LET box == bounding_rect(nodes)
        padded == VMul(RectSize(box), FAdd(Int2F(1), cfg.screen_padding))
        canvas == RectSize(cfg.rect)
    IN  /\ VEq(GraphToScreen(RectCenter(box), md), RectCenter(cfg.rect))
        /\ FEq(md.zoom, FMin(FDiv(canvas[1], padded[1]), FDiv(canvas[2], padded[2])))

\* C11 (fit-to-screen centers the graph): at the end of every frame with
\* fit_to_screen enabled, and at the end of the first frame when the widget
\* reads no zoom or pan input, the persisted Metadata fits the graph as its
\* nodes are then, whatever the frame's input and whatever drags moved before.
C11_FitCenters ==
    (/\ pc = "idle"
     /\ frame >= 1
     /\ cfg.fit_to_screen \/ (frame = 1 /\ ~ReadsNavigation(cfg)))
    => Fits(meta)

\* What does hold: the Metadata fits the box stored in graph_bounds by the
\* first frame.
FitsStoredBounds ==
    (pc = "idle" /\ frame >= 1 /\ cfg.fit_to_screen) =>
        LET box == meta.graph_bounds
            padded == VMul(RectSize(box), FAdd(Int2F(1), cfg.screen_padding))
            canvas == RectSize(cfg.rect)
        IN  /\ VEq(GraphToScreen(RectCenter(box), meta), RectCenter(cfg.rect))
            /\ FEq(meta.zoom, FMin(FDiv(canvas[1], padded[1]), FDiv(canvas[2], padded[2])))

(* ------------------- the bounding rect on its own --------------------- *)

\* bounding_rect applied once to a graph of one to three nodes whose locations
\* and radii are drawn from small sets: m.graph_bounds is the rect returned.
MaxNodes == 3

BoundsLocations == {V(0, 0), V(10, 10), V(20, 20), <<Int2F(0 - 7), Int2F(30)>>}

BoundsRadii == {Int2F(0), Int2F(5), Rat(15, 2)}

InitBounds ==
    /\ \E n \in 1..MaxNodes :
          nodes \in [0..(n - 1) ->
                        {[NewNode(loc) EXCEPT !.radius = r] :
                            loc \in BoundsLocations, r \in BoundsRadii}]
    /\ edges = <<>>
    /\ cfg = [rect |-> Canvas]
    /\ sender = "none"
    /\ sink = <<>>
    /\ meta = DefaultMetadata
    /\ m = DefaultMetadata
    /\ state = DefaultFrameState
    /\ resp = NoInput
    /\ pc = "bounding_rect"
    /\ frame = 0
    /\ replica = Fields(nodes, edges)

BoundingRectCall ==
    /\ pc = "bounding_rect"
    /\ m' = [m EXCEPT !.graph_bounds = bounding_rect(nodes)]
    /\ pc' = "bounded"
    /\ UNCHANGED <<nodes, edges, cfg, sender, sink, meta, state, resp, frame, replica>>

SpecBounds == InitBounds /\ [][BoundingRectCall]_vars

\* v is the least (greatest) number of the non-empty finite set S.
IsLeast(v, S) == v \in S /\ \A w \in S : FLe(v, w)

IsGreatest(v, S) == v \in S /\ \A w \in S : FLe(w, v)

\* The graph of the repository's test: radius 5 at (0,0), (10,10), (20,20).
IsTestGraph ==
    /\ NodeIds = 0..2
    /\ \A i \in NodeIds :
          nodes[i].location = NodeLocations[i + 1] /\ nodes[i].radius = Int2F(5)

\* C12 (bounding rect): for a non-empty graph bounding_rect returns min =
\* (least x - radius, least y - radius) and max = (greatest x + radius,
\* greatest y + radius) over the nodes, and leaves the graph as it is; the
\* test's graph gives (-5,-5)-(25,25).
C12_BoundingRect ==
    /\ []((pc = "bounded") =>
            LET b == m.graph_bounds
            IN  /\ IsLeast(b.min[1], {FSub(nodes[i].location[1], nodes[i].radius) : i \in NodeIds})
                /\ IsLeast(b.min[2], {FSub(nodes[i].location[2], nodes[i].radius) : i \in NodeIds})
                /\ IsGreatest(b.max[1], {FAdd(nodes[i].location[1], nodes[i].radius) : i \in NodeIds})
                /\ IsGreatest(b.max[2], {FAdd(nodes[i].location[2], nodes[i].radius) : i \in NodeIds})
                /\ IsTestGraph =>
                      b = [min |-> <<Int2F(0 - 5), Int2F(0 - 5)>>, max |-> V(25, 25)])
    /\ [][(pc = "bounding_rect") => (nodes' = nodes /\ edges' = edges)]_vars

\* bounding_rect has returned (-5,-5)-(25,25) for the test's graph.
C12_Witness ==
    /\ pc = "bounded"
    /\ IsTestGraph
    /\ m.graph_bounds = [min |-> <<Int2F(0 - 5), Int2F(0 - 5)>>, max |-> V(25, 25)]

(* ------------------------ selection propagation ----------------------- *)

\* The nodes within k hops of the nodes S, along outgoing edges when forward
\* and along incoming edges otherwise.
RECURSIVE Within(_, _, _)
Within(S, k, forward) ==
    IF k = 0 THEN S
    ELSE Within(S \cup {IF forward THEN edges[e].target ELSE edges[e].source :
                          e \in {x \in EdgeIds : IF forward THEN edges[x].source \in S
                                                            ELSE edges[x].target \in S}},
                k - 1, forward)

\* The nodes and edges on a path of at most |selection_depth| hops from a
\* selected node, a root not counting on account of itself.
ReachedNodes ==
    LET d == cfg.selection_depth
    IN  {n \in NodeIds : \E r \in SelectedNodes : n # r /\ n \in Within({r}, AbsI(d), d > 0)}

ReachedEdges ==
    LET d == cfg.selection_depth
    IN  {e \in EdgeIds :
            /\ d # 0
            /\ \E r \in SelectedNodes :
                  (IF d > 0 THEN edges[e].source ELSE edges[e].target)
                      \in Within({r}, AbsI(d) - 1, d > 0)}

\* The chain 0 -> 1 -> 2 with node 0 selected and selection_depth = 1.
IsChainExample ==
    /\ cfg.selection_depth = 1
    /\ SelectedNodes = {0}
    /\ EdgeIds = 0..1
    /\ edges[0].source = 0 /\ edges[0].target = 1
    /\ edges[1].source = 1 /\ edges[1].target = 2

\* C13 (selection propagation depth): after precompute_state with
\* selection_depth = d > 0 an element has selected_child exactly when it is on
\* a path of at most d outgoing hops from a selected node, and none has
\* selected_parent; with d <= 0 the elements reached within |d| incoming hops
\* have selected_parent and none has selected_child.  In the chain with node 0
\* selected and d = 1, node 1 and edge 0 are marked, node 2 and edge 1 are not.
C13_PropagationDepth ==
    [][(pc = "precompute_state") =>
          LET child == cfg.selection_depth > 0
          IN  /\ \A n \in NodeIds :
                    /\ nodes'[n].selected_child <=> (child /\ n \in ReachedNodes)
                    /\ nodes'[n].selected_parent <=> (~child /\ n \in ReachedNodes)
              /\ \A e \in EdgeIds :
                    /\ edges'[e].selected_child <=> (child /\ e \in ReachedEdges)
                    /\ edges'[e].selected_parent <=> (~child /\ e \in ReachedEdges)
              /\ IsChainExample =>
                    /\ nodes'[1].selected_child /\ edges'[0].selected_child
                    /\ ~nodes'[0].selected_child
                    /\ ~nodes'[2].selected_child /\ ~edges'[1].selected_child]_vars

\* precompute_state has marked node 1 and edge 0 of the chain, and nothing else.
C13_Witness ==
    /\ pc = After("precompute_state")
    /\ IsChainExample
    /\ {n \in NodeIds : nodes[n].selected_child} = {1}
    /\ {e \in EdgeIds : edges[e].selected_child} = {0}
    /\ \A n \in NodeIds : ~nodes[n].selected_parent

(* ------------------- the Frame State Builder, twice ------------------- *)

\* C14 (idempotence of the Frame State Builder): precompute_state run again
\* on the graph a run of precompute_state left returns the same radii, the
\* same selected_child / selected_parent flags and the same Selections; a run
\* changes no selected, dragged or location and sends no Change.
C14_PrecomputeIdempotent ==
    [][(pc = "precompute_state") =>
          LET again == precompute_state(nodes', edges', cfg)
          IN  /\ again.nodes = nodes'
              /\ again.edges = edges'
              /\ again.state = state'
              /\ \A n \in NodeIds :
                    /\ nodes'[n].selected = nodes[n].selected
                    /\ nodes'[n].dragged = nodes[n].dragged
                    /\ nodes'[n].location = nodes[n].location
              /\ \A e \in EdgeIds : edges'[e].selected = edges[e].selected
              /\ sink' = sink]_vars

\* precompute_state has run in a second frame on a graph that has radius
\* bonuses and highlight flags from the first.
C14_Witness ==
    /\ pc = After("precompute_state")
    /\ frame >= 1
    /\ state.selections.data # <<>>
    /\ \E n \in NodeIds : nodes[n].selected_child /\ FLt(Int2F(BaseRadius), nodes[n].radius)
    /\ \E e \in EdgeIds : edges[e].selected_child

(* --------------------------- the Change log --------------------------- *)

\* Each Change's old value is the value the field has in rep when the Changes
\* before it have been applied.
RECURSIVE OldsMatch(_, _)
OldsMatch(rep, changes) ==
    \/ changes = <<>>
    \/ LET ch == Head(changes)
           now == IF ch.kind = "node" THEN rep.nodes[ch.idx][ch.field]
                  ELSE rep.edges[ch.idx][ch.field]
       IN  ch.old = now /\ OldsMatch(ApplyChange(rep, ch), Tail(changes))

\* C15 (the Change stream is a faithful diff log): with a connected channel,
\* the Changes sent so far, applied in order (field := new) to a copy of the
\* initial graph, give the graph's selected, dragged and location of every
\* node and selected of every edge; and each Change's old value is the value
\* the field had just before its mutation.
C15_FaithfulDiffLog ==
    /\ []((sender = "connected") => replica = Fields(nodes, edges))
    /\ [][(sender = "connected") => OldsMatch(Fields(nodes, edges), Emitted)]_vars

\* After two frames the receiver's copy has a node that was selected, marked
\* dragged and moved by the widget.
C15_Witness ==
    /\ pc = "idle"
    /\ frame = 2
    /\ sender = "connected"
    /\ \E n \in NodeIds :
          /\ replica.nodes[n].location # NodeLocations[n + 1]
          /\ replica.nodes[n].dragged
          /\ replica.nodes[n].selected
          /\ nodes[n].location = replica.nodes[n].location

(* --------------------------- first-frame fit -------------------------- *)

\* The frame gets no zoom and no pan input: no zoom delta and no drag.
NoNavigationInput == FEq(resp.zoom_delta, Int2F(1)) /\ ~resp.dragged

\* All node locations are finite numbers.
FiniteLocations ==
    \A n \in NodeIds : IsFinite(nodes[n].location[1]) /\ IsFinite(nodes[n].location[2])

\* C16 (the first-frame fit is one-time): with first_frame set, fit_if_first
\* stores the bounding rect of the graph in graph_bounds, fits to screen (the
\* Metadata fits a visible graph of finite locations) and
\* clears first_frame; with first_frame clear it changes nothing, and no step
\* of a frame sets first_frame again (only reset_metadata does); so a frame
\* that starts with first_frame clear, with fit_to_screen disabled and no zoom
\* or pan input, persists the pan and zoom it started with.
C16_FirstFrameFitOnce ==
    [][/\ (pc = "fit_if_first" /\ m.first_frame) =>
              /\ m'.graph_bounds = bounding_rect(nodes)
              /\ ~m'.first_frame
              /\ (NodeIds # {} /\ cfg.rect # EmptyCanvas /\ FiniteLocations) => Fits(m')
       /\ (pc = "fit_if_first" /\ ~m.first_frame) => m' = m
       /\ (pc # "idle" /\ ~m.first_frame) => ~m'.first_frame
       /\ (pc # "idle" /\ ~meta.first_frame) => ~meta'.first_frame
       /\ (/\ pc = "store"
           /\ ~meta.first_frame
           /\ ~cfg.fit_to_screen
           /\ NoNavigationInput) =>
              (meta'.pan = meta.pan /\ meta'.zoom = meta.zoom)]_vars

\* A second frame without navigation input is about to persist the zoom and
\* pan the first frame's zoom input left, which do not fit the graph.
C16_Witness ==
    /\ pc = "store"
    /\ frame = 1
    /\ ~meta.first_frame
    /\ ~cfg.fit_to_screen
    /\ NoNavigationInput
    /\ NodeIds # {}
    /\ cfg.rect # EmptyCanvas
    /\ ~Fits(m)
    /\ m.zoom = meta.zoom
    /\ m.pan = meta.pan

(* ----------------------- missing pointer position --------------------- *)

\* C17 (a missing pointer position is a no-op): click handling for a click
\* reported without a pointer position (a click flag being enabled) and drag
\* handling for a drag start reported without one (node_drag being enabled)
\* leave the graph as it is, send no Change, and the frame goes on to its next
\* step (and so to storing the Metadata).
C17_MissingPointerNoOp ==
    [][(\/ (/\ pc = "handle_click"
            /\ resp.clicked
            /\ ReadsClick(cfg)
            /\ resp.hover_pos = None)
        \/ (/\ pc = "handle_nodes_drags"
            /\ cfg.node_drag
            /\ resp.drag_started
            /\ resp.hover_pos = None))
       => /\ nodes' = nodes
          /\ edges' = edges
          /\ sink' = sink
          /\ pc' = After(pc)]_vars

(* ---------------------------- drag release --------------------------- *)

\* The step sent the Change (node n, dragged, old -> new).
SentDragged(n, old, new) ==
    \E k \in DOMAIN Emitted :
        /\ Emitted[k].kind = "node"
        /\ Emitted[k].idx = n
        /\ Emitted[k].field = "dragged"
        /\ Emitted[k].old = old
        /\ Emitted[k].new = new

\* Drag handling starts a drag on node n in this frame.
DragStartsOn(n) ==
    /\ resp.drag_started
    /\ resp.hover_pos # None
    /\ node_by_pos(nodes, m, Unwrap(resp.hover_pos)) = Some(n)

\* C18 (drag release clears the drag): with node_drag enabled, drag handling
\* of a frame that reports the release leaves dragged = FALSE on every node a
\* drag started on, in an earlier frame or in this one, and sends the Change
\* (dragged, TRUE -> FALSE) for it (drag handling is the frame's last step to
\* write dragged).
C18_ReleaseClearsDrag ==
    [][(/\ pc = "handle_nodes_drags"
        /\ cfg.node_drag
        /\ resp.drag_released
        /\ sender = "connected"
        /\ ~(resp.drag_started /\ resp.hover_pos = None))
       => \A n \in NodeIds :
             (nodes[n].dragged \/ DragStartsOn(n)) =>
                 (~nodes'[n].dragged /\ SentDragged(n, TRUE, FALSE))]_vars

\* What does hold: the release clears the node the frame recorded as dragged.
ReleaseClearsRecorded ==
    [][(/\ pc = "handle_nodes_drags"
        /\ cfg.node_drag
        /\ resp.drag_released
        /\ sender = "connected"
        /\ state.dragged # None
        /\ ~(resp.drag_started /\ resp.hover_pos = None))
       => (~nodes'[Unwrap(state.dragged)].dragged
           /\ SentDragged(Unwrap(state.dragged), TRUE, FALSE))]_vars

(* ------------------------- a disconnected sink ------------------------ *)

\* The handler about to run (drag or click handling) mutates a field of the
\* graph: it calls set_dragged, move_node or set_*_selected at least once.
MutationAttempted ==
    \/ /\ pc = "handle_nodes_drags"
       /\ cfg.node_drag
       /\ \/ \E n \in NodeIds : DragStartsOn(n)
          \/ (resp.dragged \/ resp.drag_released) /\ state.dragged # None
    \/ /\ pc = "handle_click"
       /\ resp.clicked
       /\ resp.hover_pos # None
       /\ \/ ClickHit # None /\ cfg.node_select
          \/ /\ ClickHit = None
             /\ cfg.node_select \/ cfg.node_multiselect
             /\ state.selections.some
             /\ elements(state.selections.data).nodes # <<>>

\* The handler about to run panics on a missing pointer position.
PointerMissing ==
    \/ pc = "handle_nodes_drags" /\ cfg.node_drag /\ resp.drag_started /\ resp.hover_pos = None
    \/ pc = "handle_click" /\ resp.clicked /\ ReadsClick(cfg) /\ resp.hover_pos = None

\* The fields (selected, dragged, location of a node, selected of an edge)
\* whose value the step changes.
WrittenFields ==
    LET NodeFields == {<<n, f>> : n \in NodeIds, f \in {"selected", "dragged", "location"}}
    IN  {<<"node", x[1], x[2]>> : x \in {y \in NodeFields : nodes'[y[1]][y[2]] # nodes[y[1]][y[2]]}}
            \cup {<<"edge", e, "selected">> :
                     e \in {x \in EdgeIds : edges'[x].selected # edges[x].selected}}

\* The first field the handler about to run writes has its new value.
FirstWriteDone ==
    /\ (pc = "handle_nodes_drags") =>
          IF \E n \in NodeIds : DragStartsOn(n)
          THEN \A n \in NodeIds : DragStartsOn(n) => nodes'[n].dragged
          ELSE IF resp.dragged
          THEN LET d == Unwrap(state.dragged)
               IN  nodes'[d].location = VAdd(nodes[d].location, VDiv(resp.drag_delta, m.zoom))
          ELSE ~nodes'[Unwrap(state.dragged)].dragged
    /\ (pc = "handle_click" /\ ClickHit # None) =>
          LET n == Unwrap(ClickHit)
          IN  IF nodes[n].selected THEN ~nodes'[n].selected
              ELSE IF cfg.node_multiselect \/ elements(state.selections.data).nodes = <<>>
              THEN nodes'[n].selected
              ELSE ~nodes'[elements(state.selections.data).nodes[1]].selected
    /\ (pc = "handle_click" /\ ClickHit = None) =>
          ~nodes'[elements(state.selections.data).nodes[1]].selected

\* C19 (a disconnected sink is fatal and nothing is rolled back): with a
\* registered but disconnected channel, the first field mutation of drag or
\* click handling is written and then ends the frame: no other field is
\* written, nothing is received, and the widget takes no further step, so the
\* frame's Metadata is never stored; a handler that mutates nothing goes on.
\* With no channel registered the handlers never fail on a mutation, and write
\* their first mutation as well.
C19_DisconnectedSinkFatal ==
    [][/\ (/\ sender = "disconnected"
           /\ pc \in {"handle_nodes_drags", "handle_click"}
           /\ ~PointerMissing) =>
              /\ pc' = IF MutationAttempted THEN "panicked" ELSE After(pc)
              /\ sink' = sink
              /\ Cardinality(WrittenFields) <= 1
              /\ MutationAttempted => FirstWriteDone
       /\ (pc = "panicked") => FALSE
       /\ (/\ sender = "none"
           /\ pc \in {"handle_nodes_drags", "handle_click"}
           /\ ~PointerMissing) =>
              /\ pc' = After(pc)
              /\ sink' = sink
              /\ (MutationAttempted /\ pc = "handle_click" /\ ClickHit # None) =>
                    (nodes'[Unwrap(ClickHit)].selected <=> ~nodes[Unwrap(ClickHit)].selected)
              /\ (MutationAttempted /\ pc = "handle_nodes_drags" /\ ~resp.drag_released) =>
                    \A n \in NodeIds : DragStartsOn(n) => nodes'[n].dragged]_vars

\* A click on node 0 in single-select mode, with node 1 selected and a
\* disconnected channel, has ended the frame after deselecting node 1: node 0
\* is not selected and the persisted Metadata is still the default.
C19_Witness ==
    /\ pc = "panicked"
    /\ sender = "disconnected"
    /\ resp.clicked
    /\ resp.hover_pos # None
    /\ node_by_pos(nodes, m, Unwrap(resp.hover_pos)) = Some(0)
    /\ replica.nodes[1].selected
    /\ ~nodes[1].selected
    /\ ~nodes[0].selected
    /\ meta = DefaultMetadata
    /\ m # meta

(* ------------------------ one dragged node at most -------------------- *)

DraggedNodes == {n \in NodeIds : nodes[n].dragged}

\* C20 (at most one dragged node): with node_drag enabled, when a frame has
\* run all its handlers (its Metadata is about to be stored) at most one node
\* has dragged = TRUE, and the node the frame recorded as dragged, when there
\* is one and a node is dragged, is that node.
C20_SingleDraggedNode ==
    (pc = "store" /\ cfg.node_drag) =>
        /\ Cardinality(DraggedNodes) <= 1
        /\ (state.dragged # None /\ DraggedNodes # {}) => DraggedNodes = {Unwrap(state.dragged)}

\* Two nodes are dragged at the end of a frame only when the frame reported a
\* drag start over a node while another node was already dragged.
SingleDraggedUnlessRestart ==
    (pc = "store" /\ cfg.node_drag /\ Cardinality(DraggedNodes) > 1) =>
        /\ resp.drag_started
        /\ resp.hover_pos # None
        /\ state.dragged # None

====
